---------------------------- MODULE Spec2Model ----------------------------
(***************************************************************************)
(* A model of bitrecs/llms/prompt_factory.py: the PromptFactory            *)
(* constructor and generate_prompt, the context analysis, the cached       *)
(* tokenizer lookup and the tolerant reply parser tryparse_llm.            *)
(*                                                                         *)
(* Python strings are TLA+ strings; TLC evaluates Len, \o and SubSeq on    *)
(* them, so every string operation below works on the characters.          *)
(***************************************************************************)
EXTENDS Integers, Sequences, FiniteSets, TLC

VARIABLES
    call,           \* the arguments of the PromptFactory(...) call
    factory,        \* the PromptFactory object (or the constructor's error)
    log,            \* the bt.logging lines of the constructor and generate_prompt
    prompt,         \* what generate_prompt returned
    input_str,      \* tryparse_llm: its argument
    pc,             \* tryparse_llm: where the call stands
    cleaned_input,  \* tryparse_llm: the stripped, fence-free text
    patIdx,         \* tryparse_llm: index of the pattern of the outer loop
    matches,        \* tryparse_llm: regex.findall of the current pattern
    matchIdx,       \* tryparse_llm: index of the match of the inner loop
    result,         \* tryparse_llm: the returned list
    categories,     \* _analyze_context: its category tallies, in order
    genders,        \* _analyze_context: its gender tallies, in order
    price_ranges,   \* _analyze_context: its price tier tallies, in order
    analysis,       \* _analyze_context: the returned summary
    cache,          \* lru_cache of _get_cached_encoding, least recent first
    handed,         \* encoder instances each encoding name was answered with
    created,        \* how often tiktoken.get_encoding ran for each name
    lookups         \* number of _get_cached_encoding calls so far

factoryVars == <<call, factory, log, prompt>>
parseVars == <<input_str, pc, cleaned_input, patIdx, matches, matchIdx, result>>
analyzeVars == <<categories, genders, price_ranges, analysis>>
cacheVars == <<cache, handed, created, lookups>>
vars == <<call, factory, log, prompt, input_str, pc, cleaned_input, patIdx, matches,
          matchIdx, result, categories, genders, price_ranges, analysis,
          cache, handed, created, lookups>>

---------------------------------------------------------------------------
(* Python str operations.                                                  *)

Char(s, i) == SubSeq(s, i, i)

\* The characters str.strip() removes (the ASCII ones).
Whitespace == {" ", "\t", "\n", "\r", "\f"}

Min(S) == CHOOSE x \in S : \A y \in S : x <= y
Max(S) == CHOOSE x \in S : \A y \in S : x >= y

\* s.strip()
Strip(s) ==
    LET kept == {k \in 1..Len(s) : Char(s, k) \notin Whitespace} IN
    IF kept = {} THEN "" ELSE SubSeq(s, Min(kept), Max(kept))

StartsWithAt(s, i, w) ==
    /\ i + Len(w) - 1 <= Len(s)
    /\ SubSeq(s, i, i + Len(w) - 1) = w

\* s.find(w, i): the first index >= i where w occurs, 0 when there is none.
Find(s, w, i) ==
    LET at == {k \in i..(Len(s) - Len(w) + 1) : StartsWithAt(s, k, w)} IN
    IF at = {} THEN 0 ELSE Min(at)

\* w in s
Contains(s, w) == Find(s, w, 1) # 0

\* s.replace(old, new), old non-empty: every occurrence, left to right.
RECURSIVE Replace(_, _, _)
Replace(s, old, new) ==
    LET k == Find(s, old, 1) IN
    IF k = 0 THEN s
    ELSE SubSeq(s, 1, k - 1) \o new
         \o Replace(SubSeq(s, k + Len(old), Len(s)), old, new)

---------------------------------------------------------------------------
(* json.loads, for the JSON the model's inputs use: arrays, objects,       *)
(* strings with the simple backslash escapes, numbers without exponent and *)
(* the three literals.  A parsed value is a tagged record; a failed parse  *)
(* (json.JSONDecodeError) is JFail.                                        *)

JStr(s) == [t |-> "str", s |-> s]
JNum(n) == [t |-> "num", n |-> n]
JLit(n) == [t |-> "lit", name |-> n]
JList(items) == [t |-> "list", items |-> items]
JObj(pairs) == [t |-> "obj", pairs |-> pairs]

JFail == [ok |-> FALSE]
JOk(v, p) == [ok |-> TRUE, val |-> v, pos |-> p]

JsonWhitespace == {" ", "\t", "\n", "\r"}
Digits == {"0", "1", "2", "3", "4", "5", "6", "7", "8", "9"}

\* The first index >= i whose character is not in chars (Len(s) + 1: none).
SkipChars(s, i, chars) ==
    IF i > Len(s) \/ Char(s, i) \notin chars THEN i
    ELSE LET rest == {k \in i..Len(s) : Char(s, k) \notin chars} IN
         IF rest = {} THEN Len(s) + 1 ELSE Min(rest)

SkipWs(s, i) == SkipChars(s, i, JsonWhitespace)

SkipDigits(s, i) == SkipChars(s, i, Digits)

\* What a backslash escape stands for ("" when it is not a simple escape).
Unescape(c) ==
    CASE c = "\"" -> "\""
      [] c = "\\" -> "\\"
      [] c = "/" -> "/"
      [] c = "n" -> "\n"
      [] c = "t" -> "\t"
      [] c = "r" -> "\r"
      [] OTHER -> ""

ControlChars == {"\n", "\t", "\r", "\f"}

\* The first index >= i whose character is in chars (0: none).
NextOf(s, i, chars) ==
    LET at == {k \in i..Len(s) : Char(s, k) \in chars} IN
    IF at = {} THEN 0 ELSE Min(at)

\* The string literal whose opening quote is before i; acc is its value so
\* far.  Plain characters are taken up to the next quote, backslash or control
\* character; an escape is taken on its own.
RECURSIVE ParseStringBody(_, _, _)
ParseStringBody(s, i, acc) ==
    LET j == NextOf(s, i, {"\"", "\\"} \cup ControlChars) IN
    IF j = 0 THEN JFail
    ELSE IF Char(s, j) = "\"" THEN JOk(JStr(acc \o SubSeq(s, i, j - 1)), j + 1)
    ELSE IF Char(s, j) = "\\" THEN
        IF j + 1 > Len(s) \/ Unescape(Char(s, j + 1)) = "" THEN JFail
        ELSE ParseStringBody(s, j + 2,
                             acc \o SubSeq(s, i, j - 1) \o Unescape(Char(s, j + 1)))
    ELSE JFail

ParseNumber(s, i) ==
    LET d == IF Char(s, i) = "-" THEN i + 1 ELSE i
        e == SkipDigits(s, d)
        f == IF e + 1 <= Len(s) /\ Char(s, e) = "." /\ Char(s, e + 1) \in Digits
             THEN SkipDigits(s, e + 1) ELSE e
    IN  IF e = d \/ (e > d + 1 /\ Char(s, d) = "0") THEN JFail
        ELSE JOk(JNum(SubSeq(s, i, f - 1)), f)

ParseLiteral(s, i) ==
    IF StartsWithAt(s, i, "true") THEN JOk(JLit("true"), i + 4)
    ELSE IF StartsWithAt(s, i, "false") THEN JOk(JLit("false"), i + 5)
    ELSE IF StartsWithAt(s, i, "null") THEN JOk(JLit("null"), i + 4)
    ELSE JFail

RECURSIVE ParseValue(_, _)
RECURSIVE ParseElements(_, _, _)
RECURSIVE ParseMembers(_, _, _)

\* What parsing a run of array elements gives: the elements, the position
\* after them, and whether the closing bracket has been passed.
ElementsOk(items, pos, closed) ==
    [ok |-> TRUE, items |-> items, pos |-> pos, closed |-> closed]

\* The JSON value that starts at i (no leading whitespace).
ParseValue(s, i) ==
    IF i > Len(s) THEN JFail
    ELSE LET c == Char(s, i) IN
         IF c = "\"" THEN ParseStringBody(s, i + 1, "")
         ELSE IF c = "[" THEN
             LET j == SkipWs(s, i + 1) IN
             IF j <= Len(s) /\ Char(s, j) = "]" THEN JOk(JList(<<>>), j + 1)
             ELSE LET run == ParseElements(s, j, Len(s)) IN
                  IF run.ok /\ run.closed THEN JOk(JList(run.items), run.pos)
                  ELSE JFail
         ELSE IF c = "{" THEN
             LET j == SkipWs(s, i + 1) IN
             IF j <= Len(s) /\ Char(s, j) = "}" THEN JOk(JObj(<<>>), j + 1)
             ELSE ParseMembers(s, j, <<>>)
         ELSE IF c \in Digits \cup {"-"} THEN ParseNumber(s, i)
         ELSE ParseLiteral(s, i)

\* Up to n elements of an array from i on, each with the comma or the closing
\* bracket after it; the run ends at the closing bracket.  A run of several
\* elements is its first half followed by its second half.
ParseElements(s, i, n) ==
    IF n <= 1
    THEN LET v == ParseValue(s, i)
             j == SkipWs(s, v.pos)
         IN  IF ~v.ok \/ j > Len(s) THEN JFail
             ELSE IF Char(s, j) = "]" THEN ElementsOk(<<v.val>>, j + 1, TRUE)
             ELSE IF Char(s, j) = "," THEN ElementsOk(<<v.val>>, SkipWs(s, j + 1), FALSE)
             ELSE JFail
    ELSE LET first == ParseElements(s, i, n \div 2) IN
         IF ~first.ok \/ first.closed THEN first
         ELSE LET second == ParseElements(s, first.pos, n - (n \div 2)) IN
              IF ~second.ok THEN JFail
              ELSE ElementsOk(first.items \o second.items, second.pos, second.closed)

\* The members of an object from i on, up to its closing brace.
ParseMembers(s, i, acc) ==
    IF i > Len(s) \/ Char(s, i) # "\"" THEN JFail
    ELSE LET k == ParseStringBody(s, i + 1, "") IN
         IF ~k.ok THEN JFail
         ELSE LET c == SkipWs(s, k.pos) IN
              IF c > Len(s) \/ Char(s, c) # ":" THEN JFail
              ELSE LET v == ParseValue(s, SkipWs(s, c + 1)) IN
                   IF ~v.ok THEN JFail
                   ELSE LET j == SkipWs(s, v.pos)
                            got == Append(acc, <<k.val.s, v.val>>)
                        IN  IF j > Len(s) THEN JFail
                            ELSE IF Char(s, j) = "}" THEN JOk(JObj(got), j + 1)
                            ELSE IF Char(s, j) = "," THEN
                                ParseMembers(s, SkipWs(s, j + 1), got)
                            ELSE JFail

\* json.loads(s): one value, whitespace around it, nothing after it.
JsonLoads(s) ==
    LET v == ParseValue(s, SkipWs(s, 1)) IN
    IF v.ok /\ SkipWs(s, v.pos) = Len(s) + 1 THEN v ELSE JFail


---------------------------------------------------------------------------
(* re.compile(pattern, re.DOTALL).findall(text) for the two patterns of    *)
(* tryparse_llm: an opening bracket, a lazy run of the middle class, a     *)
(* closing bracket.                                                        *)

patterns == <<"\\[.*?\\]", "\\[[\\s\\S]*?\\]">>

\* The re.DOTALL flag both patterns are compiled with.
DOTALL == TRUE

\* Whether the pattern's middle class ('.' or '[\s\S]') takes character c.
MiddleTakes(pattern, c) ==
    IF pattern = patterns[1] THEN DOTALL \/ c # "\n" ELSE TRUE

\* The end of the lazy match whose bracket opened before k (0: no match): the
\* first closing bracket, when the middle class takes every character before it.
MatchEnd(pattern, s, k) ==
    LET j == Find(s, "]", k) IN
    IF j = 0 THEN 0
    ELSE IF \A m \in k..(j - 1) : MiddleTakes(pattern, Char(s, m)) THEN j
    ELSE 0

\* The non-overlapping matches from pos on, in order of appearance.
RECURSIVE FindAllFrom(_, _, _)
FindAllFrom(pattern, s, pos) ==
    LET i == Find(s, "[", pos) IN
    IF i = 0 THEN <<>>
    ELSE LET j == MatchEnd(pattern, s, i + 1) IN
         IF j = 0 THEN FindAllFrom(pattern, s, i + 1)
         ELSE <<SubSeq(s, i, j)>> \o FindAllFrom(pattern, s, j + 1)

FindAll(pattern, s) == FindAllFrom(pattern, s, 1)

---------------------------------------------------------------------------
(* PromptFactory._analyze_context                                          *)

UpperCase == "ABCDEFGHIJKLMNOPQRSTUVWXYZ"
LowerCase == "abcdefghijklmnopqrstuvwxyz"

LowerChar(c) ==
    LET k == Find(UpperCase, c, 1) IN IF k = 0 THEN c ELSE Char(LowerCase, k)

\* s.lower()
RECURSIVE Lower(_)
Lower(s) ==
    IF Len(s) = 0 THEN ""
    ELSE IF Len(s) = 1 THEN LowerChar(s)
    ELSE LET h == Len(s) \div 2 IN
         Lower(SubSeq(s, 1, h)) \o Lower(SubSeq(s, h + 1, Len(s)))

\* dict.get(key, default) on a parsed JSON object: the last member wins.
ObjGet(obj, key, default) ==
    LET at == {k \in 1..Len(obj.pairs) : obj.pairs[k][1] = key} IN
    IF at = {} THEN default ELSE obj.pairs[Max(at)][2]

\* str(v) of a parsed JSON value.  A number prints as it was written (the
\* same number to float()); containers do not occur as field values here.
PyStr(v) ==
    CASE v.t = "str" -> v.s
      [] v.t = "num" -> v.n
      [] v.t = "lit" -> (CASE v.name = "true" -> "True"
                           [] v.name = "false" -> "False"
                           [] OTHER -> "None")
      [] v.t = "list" -> "[...]"
      [] OTHER -> "{...}"

\* not v
Falsy(v) ==
    CASE v.t = "str" -> v.s = ""
      [] v.t = "num" -> v.n \in {"0", "-0", "0.0", "-0.0"}
      [] v.t = "lit" -> v.name # "true"
      [] v.t = "list" -> v.items = <<>>
      [] OTHER -> v.pairs = <<>>

\* any(word in name for word in words)
AnyIn(name, words) == \E k \in 1..Len(words) : Contains(name, words[k])

TopsWords == <<"shirt", "top", "blouse", "tank">>
BottomsWords == <<"pants", "jeans", "trousers", "shorts">>
FootwearWords == <<"shoes", "boots", "sneakers", "sandals">>
OuterwearWords == <<"jacket", "coat", "blazer", "cardigan">>
DressesWords == <<"dress", "skirt", "romper">>

\* The category a lower-cased name is tallied in ("none": in no category).
CategoryOf(name) ==
    IF AnyIn(name, TopsWords) THEN "tops"
    ELSE IF AnyIn(name, BottomsWords) THEN "bottoms"
    ELSE IF AnyIn(name, FootwearWords) THEN "footwear"
    ELSE IF AnyIn(name, OuterwearWords) THEN "outerwear"
    ELSE IF AnyIn(name, DressesWords) THEN "dresses"
    ELSE "none"

MenWords == <<"men", "male", "mens", "guy">>
WomenWords == <<"women", "female", "womens", "lady", "girl">>
UnisexWords == <<"unisex", "unisex">>

\* The gender a lower-cased name is tallied in ("none": in no gender).
GenderOf(name) ==
    IF AnyIn(name, MenWords) THEN "men"
    ELSE IF AnyIn(name, WomenWords) THEN "women"
    ELSE IF AnyIn(name, UnisexWords) THEN "unisex"
    ELSE "none"

RECURSIVE ToNat(_)
ToNat(s) ==
    IF s = "" THEN 0
    ELSE ToNat(SubSeq(s, 1, Len(s) - 1)) * 10 + (Find("0123456789", Char(s, Len(s)), 1) - 1)

AllDigits(s) == \A k \in 1..Len(s) : Char(s, k) \in Digits

\* float(s) for a plain decimal, "nan" and "inf" (no exponent, no underscore).
\* ok = FALSE is ValueError.  whole is the integer part and exact says that
\* the fraction is zero: against an integer limit L, a finite x < L exactly
\* when x is negative or whole < L.
ParseFloat(s) ==
    LET str == Strip(s)
        neg == Len(str) > 0 /\ Char(str, 1) = "-"
        signed == Len(str) > 0 /\ Char(str, 1) \in {"-", "+"}
        body == IF signed THEN SubSeq(str, 2, Len(str)) ELSE str
        dot == Find(body, ".", 1)
        ip == IF dot = 0 THEN body ELSE SubSeq(body, 1, dot - 1)
        fp == IF dot = 0 THEN "" ELSE SubSeq(body, dot + 1, Len(body))
    IN  IF Lower(body) = "nan"
        THEN [ok |-> TRUE, kind |-> "nan", neg |-> neg, whole |-> 0, exact |-> FALSE]
        ELSE IF Lower(body) \in {"inf", "infinity"}
        THEN [ok |-> TRUE, kind |-> "inf", neg |-> neg, whole |-> 0, exact |-> FALSE]
        ELSE IF AllDigits(ip) /\ AllDigits(fp) /\ Len(ip) + Len(fp) > 0
        THEN [ok |-> TRUE, kind |-> "finite", neg |-> neg, whole |-> ToNat(ip),
              exact |-> \A k \in 1..Len(fp) : Char(fp, k) = "0"]
        ELSE [ok |-> FALSE, kind |-> "error", neg |-> FALSE, whole |-> 0, exact |-> FALSE]

\* x < limit for a parsed float and a positive integer limit.
FloatLess(x, limit) ==
    CASE x.kind = "nan" -> FALSE
      [] x.kind = "inf" -> x.neg
      [] OTHER -> x.neg \/ x.whole < limit

BudgetLimit == 25
MidRangeLimit == 75

\* A mutant of TierOf: the upper limit of mid-range taken as inclusive.
TierOfInclusive(x) ==
    IF FloatLess(x, BudgetLimit) THEN "budget"
    ELSE IF \/ FloatLess(x, MidRangeLimit)
            \/ x.kind = "finite" /\ ~x.neg /\ x.whole = MidRangeLimit /\ x.exact
    THEN "mid-range"
    ELSE "premium"

\* The tier of a parsed price.
TierOf(x) ==
    IF FloatLess(x, BudgetLimit) THEN "budget"
    ELSE IF FloatLess(x, MidRangeLimit) THEN "mid-range"
    ELSE "premium"

\* float(str(price).replace('$', '').replace(',', ''))
PriceValue(price) == ParseFloat(Replace(Replace(PyStr(price), "$", ""), ",", ""))

\* The tier a product's price field is tallied in ("none": it does not parse).
PriceTier(price) ==
    LET x == PriceValue(price) IN IF x.ok THEN TierOf(x) ELSE "none"

NameOf(product) == Lower(PyStr(ObjGet(product, "name", JStr(""))))
PriceOf(product) == ObjGet(product, "price", JStr("0"))

\* Counter(labels).most_common(n): by falling count, first seen first on a tie.
RECURSIVE MostCommon(_, _)
MostCommon(labels, n) ==
    IF n = 0 \/ labels = <<>> THEN <<>>
    ELSE LET Count(l) == Cardinality({k \in 1..Len(labels) : labels[k] = l})
             First(l) == Min({k \in 1..Len(labels) : labels[k] = l})
             Seen == {labels[k] : k \in 1..Len(labels)}
             top == CHOOSE l \in Seen :
                      \A m \in Seen : \/ Count(l) > Count(m)
                                      \/ Count(l) = Count(m) /\ First(l) <= First(m)
             Other(l) == l # top
         IN  <<top>> \o MostCommon(SelectSeq(labels, Other), n - 1)

\* ', '.join(parts), also '; '.join(parts)
RECURSIVE Join(_, _)
Join(parts, sep) ==
    IF parts = <<>> THEN ""
    ELSE IF Len(parts) = 1 THEN parts[1]
    ELSE LET half == Len(parts) \div 2 IN
         Join(SubSeq(parts, 1, half), sep) \o sep
         \o Join(SubSeq(parts, half + 1, Len(parts)), sep)

\* s[:n]
Prefix(s, n) == SubSeq(s, 1, IF Len(s) < n THEN Len(s) ELSE n)

\* products[:50]
AnalyzeLimit == 50

Tallied(l) == l # "none"

\* The summary built from the three tallies.
Summary(cats, gens, tiers) ==
    LET parts ==
          (IF cats = <<>> THEN <<>>
           ELSE <<"Main categories: " \o Join(MostCommon(cats, 3), ", ")>>)
          \o (IF gens = <<>> THEN <<>>
              ELSE <<"Target gender: " \o Join(MostCommon(gens, 2), ", ")>>)
          \o (IF tiers = <<>> THEN <<>>
              ELSE <<"Price range: " \o Join(MostCommon(tiers, 2), ", ")>>)
    IN  IF parts = <<>> THEN "Mixed product categories available"
        ELSE Join(parts, "; ")

NoTallies(text) ==
    [analysis |-> text, categories |-> <<>>, genders |-> <<>>, price_ranges |-> <<>>]

\* The loop over products[:50] and the summary after it.  A product that is
\* not a mapping raises at its place: the tallies stop there and the analysis
\* is unavailable.
AnalyzeSample(sample, bad) ==
    LET n == IF bad = {} THEN Len(sample) ELSE Min(bad) - 1
        cats == SelectSeq([k \in 1..n |-> CategoryOf(NameOf(sample[k]))], Tallied)
        gens == SelectSeq([k \in 1..n |-> GenderOf(NameOf(sample[k]))], Tallied)
        tiers == SelectSeq([k \in 1..n |-> PriceTier(PriceOf(sample[k]))], Tallied)
    IN  [analysis |-> IF bad = {} THEN Summary(cats, gens, tiers)
                      ELSE "Context analysis unavailable",
         categories |-> cats, genders |-> gens, price_ranges |-> tiers]

NotMappings(sample) == {k \in 1..Len(sample) : sample[k].t # "obj"}

\* _analyze_context() once json.loads(self.context) has returned v.
AnalyzeLoaded(v) ==
    IF ~v.ok THEN NoTallies("Context analysis unavailable")
    ELSE IF Falsy(v.val) THEN NoTallies("No products available for analysis")
    ELSE IF v.val.t # "list" THEN NoTallies("Context analysis unavailable")
    ELSE AnalyzeSample(Prefix(v.val.items, AnalyzeLimit),
                       NotMappings(Prefix(v.val.items, AnalyzeLimit)))

\* _analyze_context() on a context string: the summary it returns, and the
\* three tallies as they stand when it returns.
AnalyzeContext(ctx) == AnalyzeLoaded(JsonLoads(ctx))

---------------------------------------------------------------------------
(* The lru_cache(maxsize=4) of _get_cached_encoding, and get_token_count.  *)

\* maxsize of the lru_cache
MaxSize == 4

\* Encoding names callers pass: encodings tiktoken knows, and one it does not.
KnownEncodings == {"o200k_base", "cl100k_base", "p50k_base", "r50k_base", "gpt2"}
EncodingNames == KnownEncodings \cup {"no_such_encoding"}

\* Number of lookups a run makes.
MaxLookups == 6

Get(f, k, default) == IF k \in DOMAIN f THEN f[k] ELSE default
Put(f, k, v) == [x \in DOMAIN f \cup {k} |-> IF x = k THEN v ELSE f[x]]

CachedAt(name) == {k \in 1..Len(cache) : cache[k].name = name}

Without(seq, k) == SubSeq(seq, 1, k - 1) \o SubSeq(seq, k + 1, Len(seq))

InstancesSeen == Cardinality(UNION {Get(handed, n, {}) : n \in EncodingNames})

\* A new entry goes in as the most recent; a full cache drops its least recent.
CacheInsert(entries, e) ==
    IF Len(entries) >= MaxSize THEN Append(Tail(entries), e) ELSE Append(entries, e)

\* A mutant of CacheHit: the cache never answers from its entries.
CacheHitNever(name) == FALSE

\* Whether the lookup is answered from the cache.
CacheHit(name) == CachedAt(name) # {}

\* _get_cached_encoding(name).  A hit answers with the cached instance and makes
\* it the most recent.  A miss runs tiktoken.get_encoding: it raises for an
\* unknown name (nothing is cached); else its encoder, which is a new one or one
\* the library kept from before (the library is not part of this repository),
\* is cached and returned.
GetCachedEncoding(name) ==
    /\ lookups < MaxLookups
    /\ lookups' = lookups + 1
    /\ IF CacheHit(name)
       THEN LET k == Min(CachedAt(name)) IN
            /\ cache' = Append(Without(cache, k), cache[k])
            /\ handed' = Put(handed, name, Get(handed, name, {}) \cup {cache[k].inst})
            /\ UNCHANGED created
       ELSE IF name \notin KnownEncodings
       THEN UNCHANGED <<cache, handed, created>>
       ELSE \E inst \in {InstancesSeen + 1} \cup Get(handed, name, {}) :
              /\ cache' = CacheInsert(cache, [name |-> name, inst |-> inst])
              /\ handed' = Put(handed, name, Get(handed, name, {}) \cup {inst})
              /\ created' = Put(created, name, Get(created, name, 0) + 1)

\* get_token_count(prompt, encoding_name): the encoder comes from the cache;
\* the count it returns is the tokenizer's and is not modelled.
GetTokenCount(name) ==
    /\ GetCachedEncoding(name)
    /\ UNCHANGED <<factoryVars, parseVars, analyzeVars>>

---------------------------------------------------------------------------
(* PromptFactory.__init__, _sort_cart_keys and generate_prompt             *)

\* bitrecs.utils.constants, which this repository keeps outside the sources
\* modelled here.
MIN_QUERY_LENGTH == 3
MAX_QUERY_LENGTH == 40
MAX_RECS_PER_REQUEST == 20

SEASON == "spring/summer"
ENGINE_MODE == "complimentary"

Persona(description, priorities) ==
    [description |-> description, priorities |-> priorities]

PERSONAS ==
    [ luxury_concierge |-> Persona(
        "an elite American Express-style luxury concierge with impeccable taste and a deep understanding of high-end products across all categories. You cater to discerning clients seeking exclusivity, quality, and prestige",
        <<"quality", "exclusivity", "brand prestige">>),
      general_recommender |-> Persona(
        "a friendly and practical product expert who helps customers find the best items for their needs, balancing seasonality, value, and personal preferences across a wide range of categories",
        <<"value", "seasonality", "customer satisfaction">>),
      discount_recommender |-> Persona(
        "a savvy deal-hunter focused on moving inventory fast. You prioritize low prices, last-minute deals, and clearing out overstocked or soon-to-expire items across all marketplace categories",
        <<"price", "inventory levels", "deal urgency">>),
      ecommerce_retail_store_manager |-> Persona(
        "an experienced e-commerce retail store manager with a strategic focus on optimizing sales, customer satisfaction, and inventory turnover across a diverse marketplace",
        <<"sales optimization", "customer satisfaction", "inventory management">>) ]

FallbackPersona == "ecommerce_retail_store_manager"

\* The character c, n times.
RECURSIVE Repeat(_, _)
Repeat(c, n) ==
    IF n <= 0 THEN ""
    ELSE IF n = 1 THEN c
    ELSE Repeat(c, n \div 2) \o Repeat(c, n - (n \div 2))

\* A mutant of ValidArgs: the lower bound of num_recs off by one.
ValidArgsFromZero(sku, num_recs) ==
    /\ ~(Len(sku) < MIN_QUERY_LENGTH \/ Len(sku) > MAX_QUERY_LENGTH)
    /\ ~(num_recs < 0 \/ num_recs > MAX_RECS_PER_REQUEST)

\* The two checks __init__ opens with; it raises ValueError when one fails.
ValidArgs(sku, num_recs) ==
    /\ ~(Len(sku) < MIN_QUERY_LENGTH \/ Len(sku) > MAX_QUERY_LENGTH)
    /\ ~(num_recs < 1 \/ num_recs > MAX_RECS_PER_REQUEST)

\* profile.site_config.get("profile", "ecommerce_retail_store_manager"): a
\* site_config value is a string or None (JLit("null")).
ConfiguredPersona(site_config) == Get(site_config, "profile", JStr(FallbackPersona))

\* not self.persona or self.persona not in PromptFactory.PERSONAS
InvalidPersona(p) == Falsy(p) \/ p.s \notin DOMAIN PERSONAS

\* A mutant of ResolvePersona: only a blank name falls back.
ResolvePersonaBlankOnly(site_config) ==
    LET p == ConfiguredPersona(site_config) IN
    IF Falsy(p) THEN FallbackPersona ELSE p.s

\* The persona __init__ settles on for a profile's site_config.
ResolvePersona(site_config) ==
    LET p == ConfiguredPersona(site_config) IN
    IF InvalidPersona(p) THEN FallbackPersona ELSE p.s

\* A mutant of SortCartItem: the item's other fields are carried along.
SortCartItemKeepsAll(item) ==
    [k \in DOMAIN item \cup {"sku", "name", "price"} |-> Get(item, k, "")]

\* One ordered_item of _sort_cart_keys.
SortCartItem(item) ==
    [sku |-> Get(item, "sku", ""), name |-> Get(item, "name", ""),
     price |-> Get(item, "price", "")]

\* _sort_cart_keys(cart)
SortCartKeys(cart) == [i \in 1..Len(cart) |-> SortCartItem(cart[i])]

\* json.dumps(cart, separators=(',', ':')) of a projected cart whose values
\* are strings that need no escape: the keys in the order sku, name, price.
DumpItem(item) ==
    "{\"sku\":\"" \o item.sku \o "\",\"name\":\"" \o item.name
    \o "\",\"price\":\"" \o item.price \o "\"}"

DumpCart(cart) == "[" \o Join([i \in 1..Len(cart) |-> DumpItem(cart[i])], ",") \o "]"

\* ProductFactory.find_sku_name(sku, context), which lives outside the sources
\* modelled here: the display name it finds is kept as the query it answers.
FindSkuName(sku, ctx) == [find_sku_name |-> sku]

\* No profile argument (profile=None).
NoProfile == [given |-> FALSE]

Profile(site_config, cart, orders) ==
    [given |-> TRUE, site_config |-> site_config, cart |-> cart, orders |-> orders]

\* PromptFactory(sku, context, num_recs, profile, debug)
Construct(sku, ctx, num_recs, profile, debug) ==
    /\ factory.state = "none"
    /\ call' = [state |-> "called", sku |-> sku, context |-> ctx,
                num_recs |-> num_recs, profile |-> profile, debug |-> debug]
    /\ IF ~ValidArgs(sku, num_recs)
       THEN /\ factory' = [state |-> "error", error |-> "ValueError"]
            /\ UNCHANGED log
       ELSE LET persona == IF profile.given THEN ResolvePersona(profile.site_config)
                           ELSE FallbackPersona
                cart == IF profile.given THEN SortCartKeys(profile.cart) ELSE <<>>
            IN  /\ factory' =
                     [state |-> "ok", sku |-> sku, context |-> ctx,
                      num_recs |-> num_recs, debug |-> debug, catalog |-> <<>>,
                      cart |-> cart,
                      cart_json |-> IF profile.given THEN DumpCart(cart) ELSE "[]",
                      orders |-> IF profile.given THEN profile.orders ELSE <<>>,
                      order_json |-> "[]", season |-> SEASON,
                      engine_mode |-> ENGINE_MODE, persona |-> persona,
                      profile |-> profile, sku_info |-> FindSkuName(sku, ctx)]
                /\ log' = IF profile.given
                             /\ InvalidPersona(ConfiguredPersona(profile.site_config))
                          THEN Append(log, [level |-> "error", msg |-> "Invalid persona"])
                          ELSE log
    /\ UNCHANGED prompt
    /\ UNCHANGED <<parseVars, analyzeVars, cacheVars>>

\* _get_seasonal_guidance() in calendar month m.
SeasonalGuidance(m) ==
    CASE m = 12 -> "Winter season - focus on warm clothing, layering pieces, holiday styles"
      [] m = 1 -> "Winter season - focus on warm clothing, layering pieces, new year styles"
      [] m = 2 -> "Winter season - focus on warm clothing, layering pieces, valentine's styles"
      [] m = 3 -> "Spring transition - focus on light layers, transitional pieces, fresh colors"
      [] m \in {4, 5} -> "Spring season - focus on light clothing, pastels, floral patterns"
      [] m = 6 -> "Summer season - focus on lightweight fabrics, bright colors, beach styles"
      [] m = 7 -> "Summer season - focus on lightweight fabrics, bright colors, vacation styles"
      [] m = 8 -> "Summer season - focus on lightweight fabrics, bright colors, back-to-school"
      [] m = 9 -> "Fall transition - focus on layering pieces, earth tones, transitional styles"
      [] m = 10 -> "Fall season - focus on warm layers, earth tones, cozy styles"
      [] m = 11 -> "Fall season - focus on warm layers, earth tones, holiday preparation"
      [] OTHER -> "Current season: " \o factory.season

\* The two size limits of the detailed prompt.
ContextLimit == 5000
CartLimit == 1000

\* A mutant of RenderedVariant: both limits taken as inclusive.
RenderedVariantInclusive(context_length, cart_length) ==
    IF context_length <= ContextLimit /\ cart_length <= CartLimit
    THEN "DETAILED" ELSE "CONCISE"

\* The template the if statement renders.
RenderedVariant(context_length, cart_length) ==
    IF context_length < ContextLimit /\ cart_length < CartLimit
    THEN "DETAILED" ELSE "CONCISE"

\* The prompt_type the log line names.
PromptType(context_length, cart_length) ==
    IF context_length < ContextLimit /\ cart_length < CartLimit
    THEN "DETAILED" ELSE "CONCISE"

\* The f-string of the chosen template, kept as the template's name and the
\* values it interpolates (the fixed wording of the templates is not modelled).
Render(variant, month) ==
    LET persona_data == PERSONAS[factory.persona]
        common == [template |-> variant, persona |-> factory.persona,
                   sku |-> factory.sku, sku_info |-> factory.sku_info,
                   engine_mode |-> factory.engine_mode, season |-> factory.season,
                   cart_json |-> factory.cart_json, context |-> factory.context,
                   seasonal_guidance |-> SeasonalGuidance(month),
                   num_recs |-> factory.num_recs]
    IN  IF variant = "DETAILED"
        THEN [state |-> "ok", text |-> common,
              description |-> Prefix(persona_data.description, 100),
              priorities |-> persona_data.priorities,
              context_analysis |-> AnalyzeContext(factory.context).analysis,
              month |-> month]
        ELSE [state |-> "ok", text |-> common,
              description |-> Prefix(persona_data.description, 80),
              priorities |-> Prefix(persona_data.priorities, 3),
              context_analysis |-> "", month |-> month]

\* generate_prompt() when datetime.now() falls in calendar month `month`.
GeneratePrompt(month) ==
    /\ factory.state = "ok"
    /\ prompt.state = "none"
    /\ LET context_length == Len(factory.context)
           cart_length == Len(factory.cart_json)
       IN  /\ prompt' = Render(RenderedVariant(context_length, cart_length), month)
           /\ log' = Append(log, [level |-> "info", msg |-> "LLM QUERY Prompt",
                                  prompt_type |-> PromptType(context_length, cart_length),
                                  context |-> context_length, cart |-> cart_length])
    /\ IF factory.debug
       THEN GetCachedEncoding("o200k_base")
       ELSE UNCHANGED cacheVars
    /\ UNCHANGED <<call, factory>>
    /\ UNCHANGED <<parseVars, analyzeVars>>

\* _analyze_context() called on the constructed factory.
AnalyzeContextCall ==
    /\ factory.state = "ok"
    /\ analysis = ""
    /\ LET r == AnalyzeContext(factory.context) IN
       /\ analysis' = r.analysis
       /\ categories' = r.categories
       /\ genders' = r.genders
       /\ price_ranges' = r.price_ranges
    /\ UNCHANGED <<factoryVars, parseVars, cacheVars>>

---------------------------------------------------------------------------
(* PromptFactory.tryparse_llm                                              *)

\* not input_str or not input_str.strip()
IsEmptyInput(s) == s = "" \/ Strip(s) = ""

\* The backtick: a TLA+ string literal cannot hold one, so the model writes
\* the character as a tilde, which no input uses otherwise.
Backtick == "~"
Fence == Backtick \o Backtick \o Backtick

\* The stripped input without its markdown fence markers.
CleanInput(s) ==
    Strip(Replace(Replace(Strip(s), Fence \o "json", ""), Fence, ""))

\* json.loads(match.strip()) of one regex match.
ParseMatch(m) == JsonLoads(Strip(m))

\* The replies a model may send: record arrays, bare or wrapped, and junk.
RecordText(sku, name, price, reason) ==
    "{\"sku\":\"" \o sku \o "\",\"name\":\"" \o name \o "\",\"price\":\"" \o price
    \o "\",\"reason\":\"" \o reason \o "\"}"

RecordA == RecordText("A", "N", "1.00", "r")
RecordB == RecordText("B", "N", "1", "r")

\* Well-formed arrays of recommendation records.
RecordArrays ==
    { "[" \o RecordA \o "]",
      "[" \o RecordB \o "]",
      "[" \o RecordA \o "," \o RecordB \o "]",
      "[\n  " \o RecordA \o ",\n  " \o RecordB \o "\n]",
      "[" \o RecordText("A", "N", "1.00", "see [1]") \o "]",
      "[" \o RecordText("A", "N", "1.00", "see [1] and [2]") \o "]",
      "[" \o RecordText("A", "Kit [2 pcs]", "1.00", "r") \o "," \o RecordB \o "]",
      "[" \o RecordText("A", "N", "1.00", "fits ] and [\"B\"]") \o "]",
      "[]" }

\* Text whose first bracketed candidate is not valid JSON.
MalformedLeads ==
    { "[{\"sku\":\"A\"} garbage ", "[oops] ", "[1, 2 then ", "[see below]\n" }

ReplyPrefixes == {"", Fence \o "json\n", "  ", "Here you go: "} \cup MalformedLeads
ReplySuffixes == {"", "\n" \o Fence, "\n", " Enjoy!"}

Junk ==
    { "", "   ", "\n\t ", "no json here", "{\"a\":1}", "\"text\"", "[oops]",
      "[1, 2", "] [", Fence \o Fence, Fence \o "json\n" \o Fence, "[{\"sku\":\"A\"}", "42" }

Replies ==
    Junk \cup { pre \o arr \o suf :
                  pre \in ReplyPrefixes, arr \in RecordArrays, suf \in ReplySuffixes }

\* tryparse_llm(s) up to the first pass of the pattern loop.
TryparseCall(s) ==
    /\ pc = "idle"
    /\ input_str' = s
    /\ IF IsEmptyInput(s)
       THEN /\ pc' = "done"
            /\ result' = <<>>
            /\ UNCHANGED <<cleaned_input, patIdx, matches, matchIdx>>
       ELSE /\ pc' = "match"
            /\ cleaned_input' = CleanInput(s)
            /\ patIdx' = 1
            /\ matches' = FindAll(patterns[1], CleanInput(s))
            /\ matchIdx' = 1
            /\ UNCHANGED result
    /\ UNCHANGED <<factoryVars, analyzeVars, cacheVars>>

\* A mutant of TryMatch: the first candidate that fails ends the recovery.
TryMatchAbortsOnFailure ==
    /\ pc = "match"
    /\ matchIdx <= Len(matches)
    /\ LET v == ParseMatch(matches[matchIdx]) IN
       /\ pc' = "done"
       /\ result' = IF v.ok /\ v.val.t = "list" THEN v.val.items ELSE <<>>
       /\ UNCHANGED matchIdx
    /\ UNCHANGED <<input_str, cleaned_input, patIdx, matches>>
    /\ UNCHANGED <<factoryVars, analyzeVars, cacheVars>>

\* One pass of "for match in matches": parse it, return it when it is a list.
TryMatch ==
    /\ pc = "match"
    /\ matchIdx <= Len(matches)
    /\ LET v == ParseMatch(matches[matchIdx]) IN
       IF v.ok /\ v.val.t = "list"
       THEN /\ pc' = "done"
            /\ result' = v.val.items
            /\ UNCHANGED matchIdx
       ELSE /\ matchIdx' = matchIdx + 1
            /\ UNCHANGED <<pc, result>>
    /\ UNCHANGED <<input_str, cleaned_input, patIdx, matches>>
    /\ UNCHANGED <<factoryVars, analyzeVars, cacheVars>>

\* The matches of one pattern are used up: the next pattern, or the fallback.
NextPattern ==
    /\ pc = "match"
    /\ matchIdx > Len(matches)
    /\ IF patIdx < Len(patterns)
       THEN /\ patIdx' = patIdx + 1
            /\ matches' = FindAll(patterns[patIdx + 1], cleaned_input)
            /\ matchIdx' = 1
            /\ UNCHANGED pc
       ELSE /\ pc' = "whole"
            /\ UNCHANGED <<patIdx, matches, matchIdx>>
    /\ UNCHANGED <<input_str, cleaned_input, result>>
    /\ UNCHANGED <<factoryVars, analyzeVars, cacheVars>>

\* No pattern worked: the entire cleaned input as JSON, else the empty list.
ParseWhole ==
    /\ pc = "whole"
    /\ LET v == JsonLoads(cleaned_input) IN
       result' = IF v.ok /\ v.val.t = "list" THEN v.val.items ELSE <<>>
    /\ pc' = "done"
    /\ UNCHANGED <<input_str, cleaned_input, patIdx, matches, matchIdx>>
    /\ UNCHANGED <<factoryVars, analyzeVars, cacheVars>>

---------------------------------------------------------------------------
(* The arguments the operations are called with.                           *)

SkuArgs ==
    { "", Repeat("S", MIN_QUERY_LENGTH - 1), Repeat("S", MIN_QUERY_LENGTH),
      "SKU-1", Repeat("S", MAX_QUERY_LENGTH), Repeat("S", MAX_QUERY_LENGTH + 1) }

NumRecsArgs == {-1, 0, 1, 5, MAX_RECS_PER_REQUEST, MAX_RECS_PER_REQUEST + 1}

\* Product records as the context serializes them.
ProductPool ==
    << "{\"name\":\"Men's Winter Jacket\",\"price\":\"120\"}",
       "{\"name\":\"Women's Summer Dress\",\"price\":\"$45.00\"}",
       "{\"name\":\"Unisex Sneakers\",\"price\":\"30\"}",
       "{\"name\":\"Female Runner Shorts\",\"price\":\"75\"}",
       "{\"name\":\"Lady Blazer\",\"price\":\"25\"}",
       "{\"name\":\"Male Grooming Kit\",\"price\":\"24.99\"}",
       "{\"name\":\"Plain Mug\",\"price\":\"abc\"}",
       "{\"name\":\"Girl Skirt\",\"price\":\"$1,200.50\"}",
       "{\"sku\":\"X1\",\"price\":75.00}",
       "{\"name\":\"Womens Tank Top\",\"price\":\"nan\"}",
       "{\"name\":\"Gift Card\",\"price\":\"74.99\"}",
       "{\"name\":\"WOMEN BOOTS\"}" >>

\* Number of products of a context built from the pool.
MaxProducts == 2

SeqsUpTo(S, n) == UNION {[1..k -> S] : k \in 0..n}

ProductList(texts) == "[" \o Join(texts, ",") \o "]"

\* A catalog longer than the sample _analyze_context looks at: the priced
\* record comes after the sample's last place.
LongCatalog ==
    ProductList([k \in 1..(AnalyzeLimit + 1) |->
                   IF k <= AnalyzeLimit THEN "{\"name\":\"Mug\",\"price\":\"x\"}"
                   ELSE ProductPool[1]])

ProductContexts ==
    { ProductList([k \in DOMAIN picks |-> ProductPool[picks[k]]]) :
        picks \in SeqsUpTo(DOMAIN ProductPool, MaxProducts) }
    \cup { "", "not json", "{}", "{\"a\":1}", "null", "0", "7", "\"text\"", "[3]",
           ProductList(<<ProductPool[4], "3", ProductPool[1]>>), LongCatalog }

\* s followed by spaces up to n characters (still the same JSON).
PadTo(s, n) == s \o Repeat(" ", n - Len(s))

SmallContext == ProductList(<<ProductPool[1], ProductPool[2], ProductPool[3]>>)

FactoryContexts ==
    { SmallContext, PadTo(SmallContext, ContextLimit - 1),
      PadTo(SmallContext, ContextLimit), Repeat("x", ContextLimit + 1) }

SiteConfigs ==
    { [theme |-> JStr("dark")],
      [profile |-> JLit("null")],
      [profile |-> JStr("")],
      [profile |-> JStr("nonexistent")],
      [profile |-> JStr("Luxury_Concierge")],
      [profile |-> JStr("luxury_concierge")],
      [profile |-> JStr("general_recommender")],
      [profile |-> JStr("discount_recommender")],
      [profile |-> JStr("ecommerce_retail_store_manager")] }

\* Cart items as the profile holds them.  A projected item with fields of f
\* characters in all serializes to 31 + f characters, a one-item cart to 33 + f:
\* the two long names put the serialized cart just under and at the limit.
CartItemPool ==
    << [sku |-> "A", name |-> "N", price |-> "1", quantity |-> "2"],
       [sku |-> "B", variant |-> "red"],
       [sku |-> "C", name |-> Repeat("n", CartLimit - 36), price |-> "9"],
       [sku |-> "C", name |-> Repeat("n", CartLimit - 35), price |-> "9"] >>

\* Number of items of a cart.
MaxCartItems == 2

Carts ==
    { [k \in DOMAIN picks |-> CartItemPool[picks[k]]] :
        picks \in SeqsUpTo(DOMAIN CartItemPool, MaxCartItems) }

ProfileArgs ==
    {NoProfile} \cup {Profile(c, cart, <<>>) : c \in SiteConfigs, cart \in Carts}

\* Constructor calls at and around the bounds of sku and num_recs, without a
\* profile and with one whose persona and cart need processing.
BoundaryCalls ==
    { <<sku, SmallContext, n, profile, FALSE>> :
        sku \in SkuArgs, n \in NumRecsArgs,
        profile \in { NoProfile,
                      Profile([profile |-> JStr("nonexistent")],
                              <<CartItemPool[2]>>, <<>>) } }

\* Constructor calls with valid sku and num_recs, over contexts and profiles.
ProfileCalls ==
    { <<"SKU-1", ctx, 5, profile, debug>> :
        ctx \in FactoryContexts, profile \in ProfileArgs, debug \in BOOLEAN }

ConstructorCalls == BoundaryCalls \cup ProfileCalls

\* Calendar months generate_prompt runs in.
Months == {1, 6, 12}

---------------------------------------------------------------------------
Init ==
    /\ call = [state |-> "none"]
    /\ factory = [state |-> "none"]
    /\ log = <<>>
    /\ prompt = [state |-> "none"]
    /\ input_str = ""
    /\ pc = "idle"
    /\ cleaned_input = ""
    /\ patIdx = 0
    /\ matches = <<>>
    /\ matchIdx = 0
    /\ result = <<>>
    /\ categories = <<>>
    /\ genders = <<>>
    /\ price_ranges = <<>>
    /\ analysis = ""
    /\ cache = <<>>
    /\ handed = <<>>
    /\ created = <<>>
    /\ lookups = 0

NextParse ==
    \/ \E s \in Replies : TryparseCall(s)
    \/ TryMatch
    \/ NextPattern
    \/ ParseWhole

\* The reply parser on its own.
SpecParse == Init /\ [][NextParse]_vars

NextFactory ==
    \/ \E c \in ConstructorCalls : Construct(c[1], c[2], c[3], c[4], c[5])
    \/ \E month \in Months : GeneratePrompt(month)

\* The constructor and generate_prompt.
SpecFactory == Init /\ [][NextFactory]_vars

NextAnalyze ==
    \/ \E ctx \in ProductContexts : Construct("SKU-1", ctx, 5, NoProfile, FALSE)
    \/ AnalyzeContextCall

\* The context analysis of a constructed factory.
SpecAnalyze == Init /\ [][NextAnalyze]_vars

NextCache == \E name \in EncodingNames : GetTokenCount(name)

\* The token counter and its encoder cache.
SpecCache == Init /\ [][NextCache]_vars

Next == NextFactory \/ NextAnalyze \/ NextCache \/ NextParse

Spec == Init /\ [][Next]_vars

---------------------------------------------------------------------------
(* Properties of tryparse_llm, checked under SpecParse.                    *)

\* The regex candidates of a reply, in the order the loop tries them.
Candidates(s) ==
    FindAll(patterns[1], CleanInput(s)) \o FindAll(patterns[2], CleanInput(s))

\* The text parses as JSON, and to a list.
IsListText(text) ==
    LET v == JsonLoads(Strip(text)) IN v.ok /\ v.val.t = "list"

ListOf(text) == JsonLoads(Strip(text)).val.items

IsSequence(x) == DOMAIN x = 1..Len(x)

\* Arrays of records whose only brackets are the array's own.
PlainArrays == {arr \in RecordArrays : Find(arr, "[", 2) = 0 /\ arr # "[]"}

\* C1: a reply whose first bracketed candidate is malformed and which ends
\* with a well-formed array of records yields that array, not the empty list.
C1_LaterCandidateReturned ==
    pc = "done" =>
      \A lead \in MalformedLeads, arr \in PlainArrays :
        input_str = lead \o arr => result = ListOf(arr)

\* C5: a finished call has returned a list: the empty one for an empty or
\* blank input, for a reply with no candidate that is not a JSON list itself,
\* and for a reply none of whose candidates is a list, itself included; a
\* candidate that fails leaves the later candidates and the whole-text parse to
\* be tried, so the first list among them is what comes back.  A call under
\* way is at a pattern and a match the loop can take up.
C5_NeverRaisesEmptyOnFailure ==
    /\ pc \in {"idle", "match", "whole", "done"}
    /\ pc = "match" => /\ patIdx \in 1..Len(patterns)
                       /\ matchIdx \in 1..(Len(matches) + 1)
                       /\ matches = FindAll(patterns[patIdx], cleaned_input)
                       /\ result = <<>>
    /\ pc = "whole" => result = <<>>
    /\ pc = "done" =>
         LET cands == Candidates(input_str)
             lists == {k \in 1..Len(cands) : IsListText(cands[k])}
             whole == CleanInput(input_str)
         IN  /\ IsSequence(result)
             /\ IsEmptyInput(input_str) => result = <<>>
             /\ ~IsEmptyInput(input_str) /\ cands = <<>> /\ ~IsListText(whole)
                  => result = <<>>
             /\ ~IsEmptyInput(input_str) /\ lists = {} /\ ~IsListText(whole)
                  => result = <<>>
             /\ ~IsEmptyInput(input_str) /\ lists # {}
                  => result = ListOf(cands[Min(lists)])
             /\ ~IsEmptyInput(input_str) /\ lists = {} /\ IsListText(whole)
                  => result = ListOf(whole)

\* Every candidate of both patterns failed, and so did the whole text.
C5_Witness ==
    /\ pc = "done"
    /\ ~IsEmptyInput(input_str)
    /\ patIdx = Len(patterns)
    /\ Len(matches) >= 1
    /\ matchIdx > Len(matches)
    /\ result = <<>>

\* The value is a recommendation record: an object of four string fields.
IsRecord(v) ==
    /\ v.t = "obj"
    /\ {m[1] : m \in {v.pairs[k] : k \in 1..Len(v.pairs)}} = {"sku", "name", "price", "reason"}
    /\ \A k \in 1..Len(v.pairs) : v.pairs[k][2].t = "str"

\* The text is a JSON array of recommendation records.
IsRecordArray(text) ==
    /\ IsListText(text)
    /\ \A k \in 1..Len(ListOf(text)) : IsRecord(ListOf(text)[k])

\* C9: a reply that is, once trimmed and without its fence markers, a JSON
\* array of recommendation records comes back whole, whatever its strings hold.
C9_RoundTrip ==
    pc = "done" /\ IsRecordArray(CleanInput(input_str))
      => result = ListOf(CleanInput(input_str))

---------------------------------------------------------------------------
(* Properties of __init__ and generate_prompt, checked under SpecFactory.  *)

LastLog == log[Len(log)]

\* C2: the DETAILED template is rendered exactly when the context is shorter
\* than 5000 characters and the serialized cart shorter than 1000, the CONCISE
\* one otherwise, and the log line names the template that was rendered.
C2_VariantByLengths ==
    prompt.state = "ok" =>
      /\ prompt.text.template \in {"DETAILED", "CONCISE"}
      /\ prompt.text.template = "DETAILED"
           <=> (Len(factory.context) < 5000 /\ Len(factory.cart_json) < 1000)
      /\ prompt.text.context = factory.context
      /\ prompt.text.cart_json = factory.cart_json
      /\ LastLog.prompt_type = prompt.text.template

\* A context of exactly 5000 characters with a short cart: CONCISE.
C2_Witness ==
    /\ prompt.state = "ok"
    /\ Len(factory.context) = 5000
    /\ Len(factory.cart_json) < 1000
    /\ prompt.text.template = "CONCISE"
    /\ LastLog.prompt_type = "CONCISE"

\* C3: the constructor succeeds exactly when the sku length and num_recs are
\* within their limits; when it fails, no field is set and no persona or cart
\* processing has left a trace.
C3_ConstructorBounds ==
    factory.state # "none" =>
      /\ factory.state \in {"ok", "error"}
      /\ factory.state = "ok"
           <=> /\ MIN_QUERY_LENGTH <= Len(call.sku)
               /\ Len(call.sku) <= MAX_QUERY_LENGTH
               /\ 1 <= call.num_recs
               /\ call.num_recs <= MAX_RECS_PER_REQUEST
      /\ factory.state = "error" =>
           /\ DOMAIN factory = {"state", "error"}
           /\ factory.error = "ValueError"
           /\ log = <<>>
           /\ prompt.state = "none"
      /\ factory.state = "ok" =>
           /\ factory.sku = call.sku
           /\ factory.num_recs = call.num_recs

\* A call with num_recs = 0 and a profile whose persona would be reported.
C3_Witness ==
    /\ factory.state = "error"
    /\ call.num_recs = 0
    /\ Len(call.sku) = MIN_QUERY_LENGTH
    /\ call.profile.given
    /\ InvalidPersona(ConfiguredPersona(call.profile.site_config))
    /\ log = <<>>

\* C4: a constructed factory's persona is a key of PERSONAS: the fallback
\* when there is no profile, no "profile" key, a blank or None value or a name
\* outside the table, and the configured name when the table has it.
C4_PersonaResolved ==
    factory.state = "ok" =>
      /\ factory.persona \in DOMAIN PERSONAS
      /\ ~call.profile.given => factory.persona = "ecommerce_retail_store_manager"
      /\ call.profile.given =>
           LET site_config == call.profile.site_config IN
           /\ "profile" \notin DOMAIN site_config
                => factory.persona = "ecommerce_retail_store_manager"
           /\ "profile" \in DOMAIN site_config =>
                LET p == site_config["profile"] IN
                IF p.t = "str" /\ p.s \in DOMAIN PERSONAS
                THEN factory.persona = p.s
                ELSE factory.persona = "ecommerce_retail_store_manager"
      /\ prompt.state = "ok" => prompt.text.persona = factory.persona

\* An unknown name fell back, was reported, and the prompt was rendered.
C4_Witness ==
    /\ factory.state = "ok"
    /\ call.profile.given
    /\ "profile" \in DOMAIN call.profile.site_config
    /\ call.profile.site_config["profile"] = JStr("nonexistent")
    /\ factory.persona = "ecommerce_retail_store_manager"
    /\ prompt.state = "ok"

\* C6: the projected cart has the input's length and order; every item has
\* exactly the keys sku, name and price, each the input item's value or the
\* empty string; the profile's cart is as it was passed; without a profile
\* the serialized cart is "[]".
C6_CartProjection ==
    factory.state = "ok" =>
      /\ call.profile.given =>
           /\ Len(factory.cart) = Len(call.profile.cart)
           /\ \A i \in 1..Len(factory.cart) :
                /\ DOMAIN factory.cart[i] = {"sku", "name", "price"}
                /\ \A k \in {"sku", "name", "price"} :
                     factory.cart[i][k] =
                       IF k \in DOMAIN call.profile.cart[i]
                       THEN call.profile.cart[i][k] ELSE ""
           /\ factory.profile.cart = call.profile.cart
      /\ ~call.profile.given => factory.cart_json = "[]" /\ factory.cart = <<>>

\* Two items, the first with a field to drop, the second with fields missing.
C6_Witness ==
    /\ factory.state = "ok"
    /\ call.profile.given
    /\ Len(call.profile.cart) = 2
    /\ "quantity" \in DOMAIN call.profile.cart[1]
    /\ "name" \notin DOMAIN call.profile.cart[2]
    /\ factory.cart[2] = [sku |-> "B", name |-> "", price |-> ""]

---------------------------------------------------------------------------
(* Properties of the encoder cache, checked under SpecCache.               *)

\* C7 as stated: whatever names are looked up, a name is handed one encoder
\* instance only, and its encoder is created at most once.
C7_CreatedOnceAlways ==
    \A name \in DOMAIN created :
      created[name] <= 1 /\ Cardinality(handed[name]) <= 1

\* C7, amended: while no more than 4 distinct encodings have been created, a
\* name is handed one encoder instance only, and its encoder is created once.
C7_CreatedOnceWithinCapacity ==
    Cardinality(DOMAIN created) <= 4 =>
      \A name \in DOMAIN created :
        created[name] = 1 /\ Cardinality(handed[name]) = 1

\* Four encodings fill the cache, and the first one was then looked up again.
C7_Witness ==
    /\ Cardinality(DOMAIN created) = 4
    /\ Len(cache) = 4
    /\ cache[4].inst = 1
    /\ lookups > 4

---------------------------------------------------------------------------
(* Properties of _analyze_context, checked under SpecAnalyze.              *)

\* The records _analyze_context looks at, when the context is a list.
Sample(ctx) ==
    LET v == JsonLoads(ctx) IN
    IF v.ok /\ v.val.t = "list" THEN Prefix(v.val.items, 50) ELSE <<>>

\* The analysis ran over a sample of mappings.
AnalyzedMappings ==
    /\ analysis # ""
    /\ Sample(factory.context) # <<>>
    /\ \A k \in 1..Len(Sample(factory.context)) : Sample(factory.context)[k].t = "obj"

\* x <= limit for a parsed float and a positive integer limit.
FloatAtMost(x, limit) ==
    FloatLess(x, limit) \/ (x.kind = "finite" /\ ~x.neg /\ x.whole = limit /\ x.exact)

\* The tier the specification names for a parsed price (a NaN, which it does
\* not place, is left where the code puts it).
StatedTier(x) ==
    IF FloatLess(x, 25) THEN "budget"
    ELSE IF FloatAtMost(x, 75) THEN "mid-range"
    ELSE "premium"

\* The tier of a parsed price with the upper limit of mid-range excluded.
HalfOpenTier(x) ==
    IF x.kind # "nan" /\ FloatLess(x, 25) THEN "budget"
    ELSE IF x.kind # "nan" /\ ~FloatLess(x, 25) /\ FloatLess(x, 75) THEN "mid-range"
    ELSE "premium"

\* The records of the sample with a price that parses.
Priced(sample) == {k \in 1..Len(sample) : PriceValue(PriceOf(sample[k])).ok}

TalliedIn(tier) == {k \in 1..Len(price_ranges) : price_ranges[k] = tier}

Tiers == {"budget", "mid-range", "premium"}

\* C8 as stated: budget below 25, mid-range from 25 to 75 inclusive, premium
\* above 75; a record whose price does not parse is in no tier.
C8_TiersInclusive ==
    AnalyzedMappings =>
      LET sample == Sample(factory.context) IN
      /\ Len(price_ranges) = Cardinality(Priced(sample))
      /\ \A tier \in Tiers :
           Cardinality(TalliedIn(tier)) =
             Cardinality({k \in Priced(sample) :
                            StatedTier(PriceValue(PriceOf(sample[k]))) = tier})

\* C8, amended: among the first 50 records, one whose price parses is tallied
\* in exactly one tier: budget when price < 25, mid-range when 25 <= price < 75,
\* premium otherwise (price >= 75, or a price that parses to NaN); one whose
\* price does not parse is in no tier, and the analysis still completes.
C8_TiersHalfOpen ==
    AnalyzedMappings =>
      LET sample == Sample(factory.context) IN
      /\ analysis # "Context analysis unavailable"
      /\ \A k \in 1..Len(price_ranges) : price_ranges[k] \in Tiers
      /\ Len(price_ranges) = Cardinality(Priced(sample))
      /\ \A tier \in Tiers :
           Cardinality(TalliedIn(tier)) =
             Cardinality({k \in Priced(sample) :
                            HalfOpenTier(PriceValue(PriceOf(sample[k]))) = tier})

\* A record priced exactly 75 and one whose price does not parse.
C8_Witness ==
    /\ analysis # ""
    /\ factory.context = ProductList(<<ProductPool[4], ProductPool[7]>>)
    /\ price_ranges = <<"premium">>

\* The gender the specification gives a lower-cased name: women when it names
\* women, whatever else the keyword lists make of it.
StatedGender(name) ==
    IF AnyIn(name, <<"women", "womens", "female">>) THEN "women" ELSE GenderOf(name)

\* C10: each record is tallied in the gender its name names, and in one only:
\* women for a name with "women", "womens" or "female", men for one with
\* "men" or "male" only, unisex for one with "unisex" only.
C10_GenderByName ==
    AnalyzedMappings =>
      LET sample == Sample(factory.context) IN
      genders = SelectSeq([k \in 1..Len(sample) |-> StatedGender(NameOf(sample[k]))],
                          Tallied)

=============================================================================
